---- MODULE Spec2Model ----
(***************************************************************************)
(* Model of the message dispatcher of the developer-assistant bot          *)
(* (src/src/app/app.ts) and of the services it calls: moderation, web      *)
(* search, code analysis and project manager.                              *)
(*                                                                         *)
(* Texts are sequences of one-character strings, so that the regular       *)
(* expressions of detectIntent and the substring tests of moderateText are *)
(* evaluated character by character, as the code evaluates them.           *)
(***************************************************************************)
EXTENDS Integers, Sequences, FiniteSets, TLC

VARIABLES
  config,    \* the configuration object, fixed at start-up
  pc,        \* where the handler of the current message is
  msg,       \* the activity: its text and its attachments
  mod,       \* the moderation result of the message
  intent,    \* the label detectIntent gave the text, "none" before
  replies,   \* the activities sent for the message, in order
  calls,     \* the external calls and file operations made for the message
  stages,    \* the stages of the dispatcher the message passed, in order
  attIdx,    \* processAttachments: index of the next attachment
  outputs,   \* processAttachments: the outputs so far
  files,     \* code_analysis: number of files the pattern matched
  analyzed,  \* code_analysis: the files analyzed so far
  results,   \* search: number of results webSearch returned
  thrown,    \* the external calls and file operations that raised, in order
  tmpFiles,  \* the attachments whose temporary file exists, undeleted
  review,    \* code_review: the CodeReviewResult of reviewCode
  pending,   \* the operations started and not yet completed
  turns,     \* concurrent turns: where each of the two handlers is
  repo       \* concurrent turns: the working tree the handlers share

vars == <<config, pc, msg, mod, intent, replies, calls, stages,
          attIdx, outputs, files, analyzed, results, thrown, tmpFiles, review,
          pending, turns, repo>>

(***************************************************************************)
(* Bounds                                                                  *)
(***************************************************************************)
\* longest attachment list of a message
MaxAtts == 2
\* longest text, in words, of the classifier's input set WordTexts
MaxWords == 2
\* largest number of files a pattern matches
MaxMatches == 4
\* longest model reply, in lines, of the review parser's input set ReviewContents
MaxLines == 3

(***************************************************************************)
(* Characters and words                                                    *)
(***************************************************************************)
LowerLetters == <<"a","b","c","d","e","f","g","h","i","j","k","l","m",
                  "n","o","p","q","r","s","t","u","v","w","x","y","z">>
UpperLetters == <<"A","B","C","D","E","F","G","H","I","J","K","L","M",
                  "N","O","P","Q","R","S","T","U","V","W","X","Y","Z">>
Digits == {"0","1","2","3","4","5","6","7","8","9"}

Range(s) == {s[i] : i \in DOMAIN s}

\* \w of a JavaScript regular expression
IsWordChar(c) == c \in Range(LowerLetters) \cup Range(UpperLetters) \cup Digits \cup {"_"}

\* \s of a JavaScript regular expression, and what String.trim removes
IsSpace(c) == c \in {" ", "\n", "\t"}

LowerChar(c) ==
  IF \E k \in DOMAIN UpperLetters : UpperLetters[k] = c
  THEN LowerLetters[CHOOSE k \in DOMAIN UpperLetters : UpperLetters[k] = c]
  ELSE c

\* String.prototype.toLowerCase
toLowerCase(t) == [i \in 1..Len(t) |-> LowerChar(t[i])]

W_search == <<"s", "e", "a", "r", "c", "h">>
W_card == <<"c", "a", "r", "d">>
W_cards == <<"c", "a", "r", "d", "s">>
W_summary == <<"s", "u", "m", "m", "a", "r", "y">>
W_summarize == <<"s", "u", "m", "m", "a", "r", "i", "z", "e">>
W_help == <<"h", "e", "l", "p">>
W_commands == <<"c", "o", "m", "m", "a", "n", "d", "s">>
W_review == <<"r", "e", "v", "i", "e", "w">>
W_code == <<"c", "o", "d", "e">>
W_analyze == <<"a", "n", "a", "l", "y", "z", "e">>
W_analysis == <<"a", "n", "a", "l", "y", "s", "i", "s">>
W_generate == <<"g", "e", "n", "e", "r", "a", "t", "e">>
W_create == <<"c", "r", "e", "a", "t", "e">>
W_git == <<"g", "i", "t">>
W_status == <<"s", "t", "a", "t", "u", "s">>
W_commit == <<"c", "o", "m", "m", "i", "t">>
W_branch == <<"b", "r", "a", "n", "c", "h">>
W_project == <<"p", "r", "o", "j", "e", "c", "t">>
W_dashboard == <<"d", "a", "s", "h", "b", "o", "a", "r", "d">>
W_deploy == <<"d", "e", "p", "l", "o", "y">>
W_deployment == <<"d", "e", "p", "l", "o", "y", "m", "e", "n", "t">>
W_env == <<"e", "n", "v">>
W_environment == <<"e", "n", "v", "i", "r", "o", "n", "m", "e", "n", "t">>
W_log == <<"l", "o", "g">>
W_bomb == <<"b", "o", "m", "b">>
W_hate == <<"h", "a", "t", "e">>
W_terror == <<"t", "e", "r", "r", "o", "r">>
W_for == <<"f", "o", "r">>
W_games == <<"g", "a", "m", "e", "s">>
W_fix == <<"f", "i", "x">>
W_bug == <<"b", "u", "g">>
W_my == <<"m", "y">>
W_typescript == <<"t", "y", "p", "e", "s", "c", "r", "i", "p", "t">>
W_Whatever == <<"W", "h", "a", "t", "e", "v", "e", "r">>
W_HELP == <<"H", "E", "L", "P">>
W_Search == <<"S", "e", "a", "r", "c", "h">>
W_BOMB == <<"B", "O", "M", "B">>
W_Commit == <<"C", "o", "m", "m", "i", "t">>
W_new == <<"n", "e", "w">>
W_feature == <<"f", "e", "a", "t", "u", "r", "e">>
W_star_ts == <<"*", ".", "t", "s">>
W_dashboard_work == <<"d", "a", "s", "h", "b", "o", "a", "r", "d", "-", "w", "o", "r", "k">>
W_auto_commit == <<"A", "u", "t", "o", "-", "c", "o", "m", "m", "i", "t">>
W_via == <<"v", "i", "a">>
W_bot == <<"b", "o", "t">>
W_feature_new == <<"f", "e", "a", "t", "u", "r", "e", "/", "n", "e", "w", "-", "f", "e", "a", "t", "u", "r", "e">>
W_searching == <<"s", "e", "a", "r", "c", "h", "i", "n", "g">>
W_hello == <<"h", "e", "l", "l", "o">>

SP == <<" ">>

RECURSIVE JoinWords(_)
\* the words of ws separated by single spaces
JoinWords(ws) ==
  IF Len(ws) = 0 THEN <<>>
  ELSE IF Len(ws) = 1 THEN ws[1]
  ELSE ws[1] \o SP \o JoinWords(Tail(ws))

(***************************************************************************)
(* Regular-expression primitives                                           *)
(***************************************************************************)
\* /^p/.test(t)
StartsWith(t, p) == Len(t) >= Len(p) /\ SubSeq(t, 1, Len(p)) = p

\* p occurs in t at position i
OccursAt(t, p, i) == i >= 1 /\ i + Len(p) - 1 <= Len(t) /\ SubSeq(t, i, i + Len(p) - 1) = p

\* /p/.test(t), also String.includes
Contains(t, p) == \E i \in 1..(Len(t) + 1) : OccursAt(t, p, i)

\* \b between positions i and i+1 of t (0 and Len(t) are the two ends)
Boundary(t, i) ==
  LET before == i >= 1 /\ i <= Len(t) /\ IsWordChar(t[i])
      after  == i + 1 >= 1 /\ i + 1 <= Len(t) /\ IsWordChar(t[i + 1])
  IN before # after

\* /^p\b/.test(t)
StartsWithB(t, p) == StartsWith(t, p) /\ Boundary(t, Len(p))

\* /\bp\b/.test(t)
ContainsWord(t, p) ==
  \E i \in 1..(Len(t) + 1) :
    OccursAt(t, p, i) /\ Boundary(t, i - 1) /\ Boundary(t, i + Len(p) - 1)

\* String.prototype.trim
RECURSIVE TrimLeft(_)
TrimLeft(t) == IF Len(t) > 0 /\ IsSpace(t[1]) THEN TrimLeft(Tail(t)) ELSE t
RECURSIVE TrimRight(_)
TrimRight(t) ==
  IF Len(t) > 0 /\ IsSpace(t[Len(t)]) THEN TrimRight(SubSeq(t, 1, Len(t) - 1)) ELSE t
Trim(t) == TrimRight(TrimLeft(t))

\* text.replace(/^(p1|p2|...)\s*/i, ''): ps lists the alternatives in order
StripPrefix(text, ps) ==
  LET t == toLowerCase(text)
      hits == {k \in DOMAIN ps : StartsWith(t, ps[k])}
  IN IF hits = {} THEN text
     ELSE LET k == CHOOSE x \in hits : \A y \in hits : x <= y
          IN TrimLeft(SubSeq(text, Len(ps[k]) + 1, Len(text)))

(***************************************************************************)
(* Intent classifier: detectIntent, app.ts 54-70                           *)
(***************************************************************************)
IntentLabels == <<"search", "card", "summarize", "help", "code_review",
                  "code_analysis", "code_generate", "git_status", "git_commit",
                  "git_branch", "project_info", "deployment", "environment">>

\* the regular expression of the i-th if of detectIntent, tested on t
RuleMatches(i, t) ==
  CASE i = 1  -> StartsWithB(t, W_search)
    [] i = 2  -> ContainsWord(t, W_card) \/ StartsWith(t, JoinWords(<<W_generate, W_card>>))
    [] i = 3  -> ContainsWord(t, W_summary) \/ Contains(t, W_summarize)
    [] i = 4  -> Contains(t, W_help) \/ Contains(t, W_commands)
    [] i = 5  -> StartsWith(t, JoinWords(<<W_review, W_code>>))
                   \/ Contains(t, JoinWords(<<W_code, W_review>>))
    [] i = 6  -> StartsWith(t, W_analyze) \/ Contains(t, W_analysis)
    [] i = 7  -> StartsWith(t, JoinWords(<<W_generate, W_code>>))
                   \/ Contains(t, JoinWords(<<W_create, W_code>>))
    [] i = 8  -> StartsWith(t, JoinWords(<<W_git, W_status>>)) \/ Contains(t, W_status)
    [] i = 9  -> StartsWith(t, W_commit)
    [] i = 10 -> StartsWith(t, W_branch)
    [] i = 11 -> StartsWith(t, W_project) \/ Contains(t, W_dashboard)
    [] i = 12 -> StartsWith(t, W_deploy) \/ Contains(t, W_deployment)
    [] i = 13 -> StartsWith(t, W_env) \/ Contains(t, W_environment)

\* detectIntent with the tests of "search" and "card" exchanged
detectIntent_cardFirst(text) ==
  LET t == toLowerCase(text) IN
  IF RuleMatches(2, t) THEN "card"
  ELSE IF RuleMatches(1, t) THEN "search"
  ELSE IF \E i \in 3..13 : RuleMatches(i, t)
       THEN IntentLabels[CHOOSE i \in 3..13 :
                           RuleMatches(i, t) /\ \A j \in 3..(i - 1) : ~RuleMatches(j, t)]
       ELSE "chat"

detectIntent(text) ==
  LET t == toLowerCase(text) IN
  IF RuleMatches(1, t) THEN "search"
  ELSE IF RuleMatches(2, t) THEN "card"
  ELSE IF RuleMatches(3, t) THEN "summarize"
  ELSE IF RuleMatches(4, t) THEN "help"
  ELSE IF RuleMatches(5, t) THEN "code_review"
  ELSE IF RuleMatches(6, t) THEN "code_analysis"
  ELSE IF RuleMatches(7, t) THEN "code_generate"
  ELSE IF RuleMatches(8, t) THEN "git_status"
  ELSE IF RuleMatches(9, t) THEN "git_commit"
  ELSE IF RuleMatches(10, t) THEN "git_branch"
  ELSE IF RuleMatches(11, t) THEN "project_info"
  ELSE IF RuleMatches(12, t) THEN "deployment"
  ELSE IF RuleMatches(13, t) THEN "environment"
  ELSE "chat"

(***************************************************************************)
(* Configuration: config.ts.  A credential is modelled by whether it is    *)
(* set (a non-empty string is truthy, undefined is falsy).                 *)
(***************************************************************************)
Configs == [enableModeration : BOOLEAN, openAIModerationApiKey : BOOLEAN,
            bingSearchApiKey : BOOLEAN, azureOpenAIKey : BOOLEAN]

\* no environment variable set
DefaultConfig == [enableModeration |-> FALSE, openAIModerationApiKey |-> FALSE,
                  bingSearchApiKey |-> FALSE, azureOpenAIKey |-> FALSE]

(***************************************************************************)
(* Moderation: moderateText, services/moderation.ts                        *)
(***************************************************************************)
banned == {W_hate, W_terror, W_bomb}

\* what the hosted moderation endpoint can answer
HostedOutcomes == {[ok |-> FALSE, flagged |-> FALSE, cats |-> <<>>],
                   [ok |-> TRUE,  flagged |-> FALSE, cats |-> <<>>],
                   [ok |-> TRUE,  flagged |-> TRUE,  cats |-> <<"violence">>],
                   [ok |-> TRUE,  flagged |-> TRUE,  cats |-> <<>>]}

\* moderateText that skips the keyword check when a credential is configured
moderateText_noKeywordWithKey(cfg, text, hosted) ==
  IF ~cfg.enableModeration
  THEN [flagged |-> FALSE, reasons |-> <<>>, called |-> FALSE]
  ELSE IF ~cfg.openAIModerationApiKey /\ \E w \in banned : Contains(toLowerCase(text), w)
  THEN [flagged |-> TRUE, reasons |-> <<"keyword">>, called |-> FALSE]
  ELSE IF cfg.openAIModerationApiKey
  THEN IF hosted.ok /\ hosted.flagged
       THEN [flagged |-> TRUE, reasons |-> hosted.cats, called |-> TRUE]
       ELSE [flagged |-> FALSE, reasons |-> <<>>, called |-> TRUE]
  ELSE [flagged |-> FALSE, reasons |-> <<>>, called |-> FALSE]

\* moderateText that ignores the enable flag
moderateText_alwaysOn(cfg, text, hosted) ==
  IF \E w \in banned : Contains(toLowerCase(text), w)
  THEN [flagged |-> TRUE, reasons |-> <<"keyword">>, called |-> FALSE]
  ELSE IF cfg.openAIModerationApiKey
  THEN IF hosted.ok /\ hosted.flagged
       THEN [flagged |-> TRUE, reasons |-> hosted.cats, called |-> TRUE]
       ELSE [flagged |-> FALSE, reasons |-> <<>>, called |-> TRUE]
  ELSE [flagged |-> FALSE, reasons |-> <<>>, called |-> FALSE]

\* moderateText that treats a failed hosted call as flagged (fail closed)
moderateText_failClosed(cfg, text, hosted) ==
  IF ~cfg.enableModeration
  THEN [flagged |-> FALSE, reasons |-> <<>>, called |-> FALSE]
  ELSE IF \E w \in banned : Contains(toLowerCase(text), w)
  THEN [flagged |-> TRUE, reasons |-> <<"keyword">>, called |-> FALSE]
  ELSE IF cfg.openAIModerationApiKey
  THEN IF ~hosted.ok \/ hosted.flagged
       THEN [flagged |-> TRUE, reasons |-> hosted.cats, called |-> TRUE]
       ELSE [flagged |-> FALSE, reasons |-> <<>>, called |-> TRUE]
  ELSE [flagged |-> FALSE, reasons |-> <<>>, called |-> FALSE]

\* the result of moderateText(text) when the hosted endpoint, if it is called,
\* answers hosted; called tells whether the endpoint was called
moderateText(cfg, text, hosted) ==
  IF ~cfg.enableModeration
  THEN [flagged |-> FALSE, reasons |-> <<>>, called |-> FALSE]
  ELSE IF \E w \in banned : Contains(toLowerCase(text), w)
  THEN [flagged |-> TRUE, reasons |-> <<"keyword">>, called |-> FALSE]
  ELSE IF cfg.openAIModerationApiKey
  THEN IF hosted.ok /\ hosted.flagged
       THEN [flagged |-> TRUE, reasons |-> hosted.cats, called |-> TRUE]
       ELSE [flagged |-> FALSE, reasons |-> <<>>, called |-> TRUE]
  ELSE [flagged |-> FALSE, reasons |-> <<>>, called |-> FALSE]

(***************************************************************************)
(* Web search: webSearch, services/search.ts                               *)
(***************************************************************************)
\* what the search API can answer: a failure, or a number of web pages
SearchOutcomes == {[ok |-> FALSE, pages |-> 0], [ok |-> TRUE, pages |-> 0],
                   [ok |-> TRUE, pages |-> 2], [ok |-> TRUE, pages |-> 5]}

Min(a, b) == IF a <= b THEN a ELSE b

\* webSearch that calls the search API without a credential
webSearch_noKeyCheck(cfg, api, count) ==
  IF api.ok THEN [results |-> Min(api.pages, count), called |-> TRUE]
  ELSE [results |-> 0, called |-> TRUE]

\* the number of results of webSearch(q, count) and whether the API was called
webSearch(cfg, api, count) ==
  IF ~cfg.bingSearchApiKey THEN [results |-> 0, called |-> FALSE]
  ELSE IF api.ok THEN [results |-> Min(api.pages, count), called |-> TRUE]
  ELSE [results |-> 0, called |-> TRUE]

(***************************************************************************)
(* Messages                                                                *)
(***************************************************************************)
\* an attachment: whether it has a contentUrl, and the suffix of its name
\* its name is "a." followed by ext; contentLen is the length of the text its
\* extractor yields
AttKinds == {[hasUrl |-> FALSE, ext |-> "txt",  contentLen |-> 10],
             [hasUrl |-> TRUE,  ext |-> "pdf",  contentLen |-> 10],
             [hasUrl |-> TRUE,  ext |-> "csv",  contentLen |-> 10],
             [hasUrl |-> TRUE,  ext |-> "txt",  contentLen |-> 10],
             [hasUrl |-> TRUE,  ext |-> "docx", contentLen |-> 10]}

AttLists == UNION {[1..n -> AttKinds] : n \in 0..MaxAtts}

\* the message texts the dispatcher is driven with
Texts == {
  <<>>,
  W_help,
  JoinWords(<<W_HELP, W_my, W_bug>>),
  JoinWords(<<W_search, W_typescript>>),
  JoinWords(<<W_search, W_for, W_card, W_games>>),
  W_Search,
  W_searching,
  JoinWords(<<W_generate, W_card, W_games>>),
  W_cards,
  JoinWords(<<W_summarize, W_my, W_code>>),
  JoinWords(<<W_review, W_code, W_fix>>),
  JoinWords(<<W_review, W_code>>),
  JoinWords(<<W_my, W_code, W_review>>),
  JoinWords(<<W_analyze, W_star_ts>>),
  W_analyze,
  JoinWords(<<W_generate, W_code, W_fix>>),
  JoinWords(<<W_generate, W_code>>),
  JoinWords(<<W_my, W_create, W_code>>),
  JoinWords(<<W_git, W_status>>),
  W_status,
  JoinWords(<<W_commit, W_fix, W_status, W_bug>>),
  JoinWords(<<W_Commit, W_fix, W_bug>>),
  W_commit,
  JoinWords(<<W_commit, W_auto_commit, W_via, W_bot>>),
  JoinWords(<<W_branch, W_feature_new>>),
  W_branch \o SP,
  JoinWords(<<W_branch, W_dashboard_work>>),
  W_project,
  JoinWords(<<W_my, W_dashboard>>),
  W_deploy,
  JoinWords(<<W_new, W_deployment>>),
  W_env,
  JoinWords(<<W_my, W_environment>>),
  JoinWords(<<W_git, W_log>>),
  W_hello,
  W_bomb,
  JoinWords(<<W_search, W_BOMB>>),
  W_Whatever,
  JoinWords(<<W_commit, W_terror, W_fix>>)
}

(***************************************************************************)
(* Program constants                                                       *)
(***************************************************************************)
\* default count of webSearch
SearchCount == 3
\* files.slice(0, 3) of the code_analysis branch
AnalyzeLimit == 3

DefaultCommitMessage == JoinWords(<<W_auto_commit, W_via, W_bot>>)
DefaultPattern == <<"*", "*", "/", "*", ".", "t", "s">>

NoMod == [ran |-> FALSE, flagged |-> FALSE, reasons |-> <<>>, hostedFailed |-> FALSE]
NoText == <<>>
NoReview == [content |-> <<>>, summary |-> <<>>, suggestions |-> <<>>, score |-> 0,
             issues |-> <<>>, from |-> "none"]

\* outside the concurrent turns no second handler and no working tree is looked at
NoTurns == <<>>
NoRepo == [dirty |-> {}, index |-> {}, commits |-> <<>>]

(***************************************************************************)
(* Initial state: the application is constructed, no message received      *)
(***************************************************************************)
Init ==
  /\ config \in Configs
  /\ pc = "idle"
  /\ msg = [text |-> NoText, attachments |-> <<>>]
  /\ mod = NoMod
  /\ intent = "none"
  /\ replies = <<>>
  /\ calls = <<>>
  /\ stages = <<>>
  /\ attIdx = 0
  /\ outputs = <<>>
  /\ files = 0
  /\ analyzed = <<>>
  /\ results = 0
  /\ thrown = <<>>
  /\ tmpFiles = {}
  /\ review = NoReview
  /\ pending = {}
  /\ turns = NoTurns
  /\ repo = NoRepo

\* context.sendActivity(r)
Send(r) == replies' = Append(replies, r)

\* the external calls cs are made, in order
Call(cs) == calls' = calls \o cs

\* the calls ts raised
Throw(ts) == thrown' = thrown \o ts

\* what the steps outside the attachment loop and the review leave alone
Rest == UNCHANGED <<thrown, tmpFiles, review, pending, turns, repo>>

\* what a step that can raise, outside the attachment loop and the review, leaves alone
Quiet == UNCHANGED <<tmpFiles, review, pending, turns, repo>>

Stage(ss) == stages' = stages \o ss

\* the handler has ended: it returned, or an exception left it
Ended == pc \in {"done", "failed"}

\* the texts that are also sent with attachments
AttachmentTexts == {<<>>, W_help, W_bomb, JoinWords(<<W_Commit, W_fix, W_bug>>),
                    JoinWords(<<W_commit, W_fix, W_status, W_bug>>)}

\* the activities the handler is invoked with
Messages == {[text |-> t, attachments |-> <<>>] : t \in Texts}
            \cup {[text |-> t, attachments |-> a] : t \in AttachmentTexts, a \in AttLists}

\* app.message(/.*/i, ...) is invoked with a new activity
Receive ==
  /\ pc = "idle"
  /\ msg' \in Messages
  /\ pc' = "moderate"
  /\ UNCHANGED <<config, mod, intent, replies, calls, stages, attIdx, outputs, files,
                  analyzed, results>>
  /\ Rest

\* the invocation is over; everything the handler kept was local to it
HandlerReturns ==
  /\ Ended
  /\ pc' = "idle"
  /\ msg' = [text |-> NoText, attachments |-> <<>>]
  /\ mod' = NoMod
  /\ intent' = "none"
  /\ replies' = <<>>
  /\ calls' = <<>>
  /\ stages' = <<>>
  /\ attIdx' = 0
  /\ outputs' = <<>>
  /\ files' = 0
  /\ analyzed' = <<>>
  /\ results' = 0
  /\ thrown' = <<>>
  /\ tmpFiles' = {}
  /\ review' = NoReview
  /\ UNCHANGED <<config, pending, turns, repo>>

\* ensureNotFlagged that goes on after the warning
ensureNotFlagged_noAbort ==
  /\ pc = "moderate"
  /\ \E hosted \in HostedOutcomes :
       LET m == moderateText(config, msg.text, hosted) IN
       /\ mod' = [ran |-> TRUE, flagged |-> m.flagged, reasons |-> m.reasons,
                  hostedFailed |-> m.called /\ ~hosted.ok]
       /\ Call(IF m.called THEN <<"moderation_api">> ELSE <<>>)
       /\ Throw(IF m.called /\ ~hosted.ok THEN <<"moderation_api">> ELSE <<>>)
       /\ Stage(<<"moderation">>)
       /\ IF m.flagged
          THEN Send([kind |-> "warning", body |-> m.reasons])
          ELSE UNCHANGED replies
       /\ pc' = "attcheck"
  /\ UNCHANGED <<config, msg, intent, attIdx, outputs, files, analyzed, results,
                  tmpFiles, review, pending, turns, repo>>

\* app.ts 185 with ensureNotFlagged (72-79): moderate the text; a flagged
\* text gets the warning and the handler returns
ensureNotFlagged ==
  /\ pc = "moderate"
  /\ \E hosted \in HostedOutcomes :
       LET m == moderateText(config, msg.text, hosted) IN
       /\ mod' = [ran |-> TRUE, flagged |-> m.flagged, reasons |-> m.reasons,
                  hostedFailed |-> m.called /\ ~hosted.ok]
       /\ Call(IF m.called THEN <<"moderation_api">> ELSE <<>>)
       /\ Throw(IF m.called /\ ~hosted.ok THEN <<"moderation_api">> ELSE <<>>)
       /\ Stage(<<"moderation">>)
       /\ IF m.flagged
          THEN /\ Send([kind |-> "warning", body |-> m.reasons])
               /\ pc' = "done"
          ELSE /\ UNCHANGED replies
               /\ pc' = "attcheck"
  /\ UNCHANGED <<config, msg, intent, attIdx, outputs, files, analyzed, results,
                  tmpFiles, review, pending, turns, repo>>

(***************************************************************************)
(* Attachments: app.ts 81-114 and 187-192                                  *)
(***************************************************************************)
SupportedExts == {"pdf", "csv", "txt", "md"}

\* text.slice(0, 4000) of processAttachments
OutputCap == 4000
\* length of 'File: ' and of the '\n' after the name
FilePrefixLen == 6
NewlineLen == 1
\* length of '[Unsupported file type - only PDF, CSV, TXT, MD processed]'
UnsupportedLen == 58
\* length of '[Error processing attachment]'
ErrorLen == 29

ExtLen(ext) == CASE ext = "md" -> 2 [] ext = "docx" -> 4 [] OTHER -> 3

\* length of att.name
NameLen(att) == 2 + ExtLen(att.ext)

\* A text of the attachment path is kept as the characters from..to-1
\* (counted from 0) of a source string of `of` characters: the string
\* `File: ${att.name}\n${content}`, the empty string, or the error string.
EmptyText == [kind |-> "empty", name |-> "none", content |-> "none",
              from |-> 0, to |-> 0, of |-> 0]

FileText(att, content, contentLen) ==
  LET n == FilePrefixLen + NameLen(att) + NewlineLen + contentLen
  IN [kind |-> "file", name |-> att.ext, content |-> content,
      from |-> 0, to |-> n, of |-> n]

TextLen(t) == t.to - t.from

\* slice that keeps one character more than asked
Slice_oneMore(t, start, end) ==
  [t EXCEPT !.from = t.from + Min(start, TextLen(t)),
            !.to = t.from + Min(end + 1, TextLen(t))]

\* t.slice(start, end) for 0 <= start <= end
Slice(t, start, end) ==
  [t EXCEPT !.from = t.from + Min(start, TextLen(t)),
            !.to = t.from + Min(end, TextLen(t))]

NoText3 == [kind |-> "none", name |-> "none", content |-> "none",
            from |-> 0, to |-> 0, of |-> 0]

\* the ways extractTextFromAttachment(att) can run: the external calls it
\* makes, the one that raises if any, what becomes of the temporary file and
\* the text it returns.  "extract" raising is the read of the temporary file
\* or the PDF or CSV parser raising; fs.unlink is reached only after them.
extractTextFromAttachment(att) ==
  IF ~att.hasUrl
  THEN {[threw |-> FALSE, calls |-> <<>>, thrown |-> <<>>, tmp |-> "none",
         out |-> EmptyText]}
  ELSE {[threw |-> TRUE, calls |-> <<"download">>, thrown |-> <<"download">>,
         tmp |-> "none", out |-> NoText3],
        [threw |-> TRUE, calls |-> <<"download", "fs_write">>, thrown |-> <<"fs_write">>,
         tmp |-> "none", out |-> NoText3]}
       \cup
       (IF att.ext \in SupportedExts
        THEN {[threw |-> TRUE, calls |-> <<"download", "fs_write", "fs_read">>,
               thrown |-> <<"extract">>, tmp |-> "left", out |-> NoText3],
              [threw |-> FALSE, calls |-> <<"download", "fs_write", "fs_read", "fs_unlink">>,
               thrown |-> <<>>, tmp |-> "deleted",
               out |-> FileText(att, att.ext, att.contentLen)]}
        ELSE {[threw |-> FALSE, calls |-> <<"download", "fs_write", "fs_unlink">>,
               thrown |-> <<>>, tmp |-> "deleted",
               out |-> FileText(att, "unsupported", UnsupportedLen)]})

ErrorOutput == [kind |-> "error", name |-> "none", content |-> "none",
                from |-> 0, to |-> ErrorLen, of |-> ErrorLen]

\* app.ts 188-189: the message has attachments, processAttachments starts
BeginAttachments ==
  /\ pc = "attcheck"
  /\ Len(msg.attachments) > 0
  /\ pc' = "attachments"
  /\ attIdx' = 1
  /\ outputs' = <<>>
  /\ Stage(<<"attachment_check", "attachments">>)
  /\ UNCHANGED <<config, msg, mod, intent, replies, calls, files, analyzed, results>>
  /\ Rest

\* processAttachments whose catch ends the loop
ProcessAttachment_abortBatch ==
  /\ pc = "attachments"
  /\ attIdx <= Len(msg.attachments)
  /\ \E run \in extractTextFromAttachment(msg.attachments[attIdx]) :
       /\ Call(run.calls)
       /\ Throw(run.thrown)
       /\ tmpFiles' = IF run.tmp = "left" THEN tmpFiles \cup {attIdx} ELSE tmpFiles
       /\ outputs' = Append(outputs, IF run.threw THEN ErrorOutput
                                     ELSE Slice(run.out, 0, OutputCap))
       /\ attIdx' = IF run.threw THEN Len(msg.attachments) + 1 ELSE attIdx + 1
  /\ UNCHANGED <<config, pc, msg, mod, intent, replies, stages, files, analyzed, results,
                  review, pending, turns, repo>>

\* one turn of the loop of processAttachments (app.ts 84-91)
ProcessAttachment ==
  /\ pc = "attachments"
  /\ attIdx <= Len(msg.attachments)
  /\ \E run \in extractTextFromAttachment(msg.attachments[attIdx]) :
       /\ Call(run.calls)
       /\ Throw(run.thrown)
       /\ tmpFiles' = IF run.tmp = "left" THEN tmpFiles \cup {attIdx} ELSE tmpFiles
       /\ outputs' = Append(outputs, IF run.threw THEN ErrorOutput
                                     ELSE Slice(run.out, 0, OutputCap))
  /\ attIdx' = attIdx + 1
  /\ UNCHANGED <<config, pc, msg, mod, intent, replies, stages, files, analyzed, results,
                  review, pending, turns, repo>>

\* app.ts 190-191: the one reply of the attachment path
AttachmentsReply ==
  /\ pc = "attachments"
  /\ attIdx > Len(msg.attachments)
  /\ Send([kind |-> "attachments", body |-> outputs])
  /\ Stage(<<"format">>)
  /\ pc' = "done"
  /\ UNCHANGED <<config, msg, mod, intent, calls, attIdx, outputs, files, analyzed, results>>
  /\ Rest

(***************************************************************************)
(* Classification and the intent branches: app.ts 194-356                  *)
(***************************************************************************)
\* the handler that classifies without looking at the attachments
Classify_ignoreAttachments ==
  /\ pc = "attcheck"
  /\ intent' = detectIntent(msg.text)
  /\ pc' = "capability"
  /\ Stage(<<"attachment_check", "classification">>)
  /\ UNCHANGED <<config, msg, mod, replies, calls, attIdx, outputs, files, analyzed, results>>
  /\ Rest

\* app.ts 194: no attachment, the text is classified
Classify ==
  /\ pc = "attcheck"
  /\ Len(msg.attachments) = 0
  /\ intent' = detectIntent(msg.text)
  /\ pc' = "capability"
  /\ Stage(<<"attachment_check", "classification">>)
  /\ UNCHANGED <<config, msg, mod, replies, calls, attIdx, outputs, files, analyzed, results>>
  /\ Rest

\* the part of the state an intent branch without a loop leaves alone
BranchFrame == UNCHANGED <<config, msg, mod, intent, attIdx, outputs, files, analyzed>>

NoSearch == UNCHANGED results

\* case 'help' (197-220) that asks the model for the command list
Help_viaModel ==
  /\ pc = "capability" /\ intent = "help"
  /\ Call(<<"model">>)
  /\ Send([kind |-> "help", body |-> <<>>])
  /\ Stage(<<"format">>)
  /\ pc' = "done"
  /\ BranchFrame
  /\ NoSearch
  /\ Rest

\* case 'help' (197-220): the static command list
Help ==
  /\ pc = "capability" /\ intent = "help"
  /\ Send([kind |-> "help", body |-> <<>>])
  /\ Stage(<<"format">>)
  /\ pc' = "done"
  /\ UNCHANGED calls
  /\ BranchFrame
  /\ NoSearch
  /\ Rest

\* the ways findProjectFiles(pattern) can run (codeAnalysis.ts 191-198): the
\* number of matches, or [] when glob raises
findProjectFiles ==
  {[calls |-> <<"glob">>, thrown |-> <<"glob">>, found |-> 0]}
  \cup {[calls |-> <<"glob">>, thrown |-> <<>>, found |-> n] : n \in 0..MaxMatches}

\* case 'code_analysis' (222-229): the pattern is resolved by findProjectFiles
CodeAnalysisFind ==
  /\ pc = "capability" /\ intent = "code_analysis"
  /\ \E run \in findProjectFiles :
       /\ Call(run.calls)
       /\ Throw(run.thrown)
       /\ files' = run.found
       /\ IF run.found = 0
          THEN /\ Send([kind |-> "no_files", body |-> <<>>])
               /\ Stage(<<"capability", "format">>)
               /\ pc' = "done"
          ELSE /\ UNCHANGED replies
               /\ Stage(<<"capability">>)
               /\ pc' = "analyze"
  /\ analyzed' = <<>>
  /\ UNCHANGED <<config, msg, mod, intent, attIdx, outputs, results, tmpFiles, review,
                  pending, turns, repo>>

\* the ways analyzeCode(file) can run (codeAnalysis.ts 32-61): eslint.lintFiles
\* and fs.readFileSync are called outside any try, so either one raising
\* leaves analyzeCode by the exception
analyzeCode ==
  {[calls |-> <<"lint">>, thrown |-> <<"lint">>, threw |-> TRUE],
   [calls |-> <<"lint", "fs_read">>, thrown |-> <<"fs_read">>, threw |-> TRUE],
   [calls |-> <<"lint", "fs_read">>, thrown |-> <<>>, threw |-> FALSE]}

\* one turn of the loop over files.slice(0, 3) (231-235); the handler has no
\* try around analyzeCode
AnalyzeFile ==
  /\ pc = "analyze"
  /\ Len(analyzed) < Min(files, AnalyzeLimit)
  /\ \E run \in analyzeCode :
       /\ Call(run.calls)
       /\ Throw(run.thrown)
       /\ IF run.threw
          THEN pc' = "failed" /\ UNCHANGED analyzed
          ELSE pc' = "analyze" /\ analyzed' = Append(analyzed, Len(analyzed) + 1)
  /\ UNCHANGED <<config, msg, mod, intent, replies, stages, attIdx, outputs, files, results,
                  tmpFiles, review, pending, turns, repo>>

\* 237-238: the reply of the code_analysis branch
CodeAnalysisReply ==
  /\ pc = "analyze"
  /\ Len(analyzed) = Min(files, AnalyzeLimit)
  /\ Send([kind |-> "analysis", body |-> analyzed])
  /\ Stage(<<"format">>)
  /\ pc' = "done"
  /\ UNCHANGED <<config, msg, mod, intent, calls, attIdx, outputs, files, analyzed, results>>
  /\ Rest

(***************************************************************************)
(* reviewCode and parseCodeReviewResponse (codeAnalysis.ts 64-150)         *)
(***************************************************************************)
NL == "\n"

RECURSIVE SplitLines(_)
\* content.split("\n")
SplitLines(t) ==
  LET idx == {i \in DOMAIN t : t[i] = NL} IN
  IF idx = {} THEN <<t>>
  ELSE LET i == CHOOSE k \in idx : \A j \in idx : k <= j
       IN <<SubSeq(t, 1, i - 1)>> \o SplitLines(SubSeq(t, i + 1, Len(t)))

RECURSIVE JoinLines(_)
\* lines.join("\n")
JoinLines(ls) ==
  IF ls = <<>> THEN <<>>
  ELSE IF Len(ls) = 1 THEN ls[1]
  ELSE ls[1] \o <<NL>> \o JoinLines(Tail(ls))

DigitChars == <<"0", "1", "2", "3", "4", "5", "6", "7", "8", "9">>

DigitValue(c) == (CHOOSE k \in DOMAIN DigitChars : DigitChars[k] = c) - 1

RECURSIVE parseInt(_)
\* parseInt of a non-empty run of decimal digits
parseInt(ds) ==
  IF Len(ds) = 1 THEN DigitValue(ds[1])
  ELSE 10 * parseInt(SubSeq(ds, 1, Len(ds) - 1)) + DigitValue(ds[Len(ds)])

RECURSIVE SkipSpace(_, _)
\* \s* from position i: the first position at or after i that holds no space
SkipSpace(t, i) == IF i <= Len(t) /\ IsSpace(t[i]) THEN SkipSpace(t, i + 1) ELSE i

RECURSIVE DigitsFrom(_, _)
\* (\d+) from position i: the longest run of digits starting there
DigitsFrom(t, i) ==
  IF i <= Len(t) /\ t[i] \in Digits THEN <<t[i]>> \o DigitsFrom(t, i + 1) ELSE <<>>

W_score_colon == <<"s", "c", "o", "r", "e", ":">>
W_rating_colon == <<"r", "a", "t", "i", "n", "g", ":">>

\* (?:score|rating): with the i flag
ScoreTokens == <<W_score_colon, W_rating_colon>>

\* /(?:score|rating):\s*(\d+)/i tried at position i of t, low being t in
\* lower case: the captured digits, or <<>> when the expression does not
\* match there
ScoreMatchAt(t, low, i) ==
  LET hits == {k \in DOMAIN ScoreTokens : OccursAt(low, ScoreTokens[k], i)}
  IN IF hits = {} THEN <<>>
     ELSE LET k == CHOOSE h \in hits : \A g \in hits : h <= g
          IN DigitsFrom(t, SkipSpace(t, i + Len(ScoreTokens[k])))

RECURSIVE scoreMatchFrom(_, _, _)
scoreMatchFrom(t, low, i) ==
  IF i > Len(t) THEN <<>>
  ELSE LET m == ScoreMatchAt(t, low, i)
       IN IF m # <<>> THEN m ELSE scoreMatchFrom(t, low, i + 1)

\* content.match(...): the capture at the leftmost position where the
\* expression matches
scoreMatch(t) == scoreMatchFrom(t, toLowerCase(t), 1)

\* let score = 5 (codeAnalysis.ts 124)
DefaultScore == 5

\* a parser that clamps the score to the range 1..10 of the prompt
parseScore_clamped(content) ==
  LET m == scoreMatch(content) IN
  IF m = <<>> THEN DefaultScore
  ELSE IF parseInt(m) > 10 THEN 10
  ELSE IF parseInt(m) < 1 THEN 1
  ELSE parseInt(m)

\* codeAnalysis.ts 124, 129-130
parseScore(content) ==
  LET m == scoreMatch(content) IN
  IF m = <<>> THEN DefaultScore ELSE parseInt(m)

W_error == <<"e", "r", "r", "o", "r">>
W_issue == <<"i", "s", "s", "u", "e">>

\* line.match(/^[-*]\s/)
IsBullet(line) == Len(line) >= 2 /\ line[1] \in {"-", "*"} /\ IsSpace(line[2])

\* line.replace(/^[-*]\s/, "").trim()
BulletItem(line) == Trim(SubSeq(line, 3, Len(line)))

\* the test of codeAnalysis.ts 136
IsIssue(line) ==
  LET low == toLowerCase(line) IN
  Contains(low, W_bug) \/ Contains(low, W_error) \/ Contains(low, W_issue)

\* the items pushed by lines.forEach (133-142), in line order
BulletItems(content, wantIssues) ==
  LET picked == SelectSeq(SplitLines(content),
                          LAMBDA l : IsBullet(l) /\ (IsIssue(l) <=> wantIssues))
  IN [i \in 1..Len(picked) |-> BulletItem(picked[i])]

DefaultSummary ==
  <<"C", "o", "d", "e", " ", "r", "e", "v", "i", "e", "w", "e", "d", " ", "s", "u", "c",
    "c", "e", "s", "s", "f", "u", "l", "l", "y">>

UnavailableSummary ==
  <<"A", "I", " ", "c", "o", "d", "e", " ", "r", "e", "v", "i", "e", "w", " ", "u", "n",
    "a", "v", "a", "i", "l", "a", "b", "l", "e", " ", "-", " ", "m", "i", "s", "s", "i",
    "n", "g", " ", "A", "P", "I", " ", "k", "e", "y">>

FailedSummary ==
  <<"C", "o", "d", "e", " ", "r", "e", "v", "i", "e", "w", " ", "f", "a", "i", "l", "e",
    "d">>

\* a summary that skips the empty lines at the head of the reply
parseSummary_firstNonEmpty(content) ==
  LET nonEmpty == SelectSeq(SplitLines(content), LAMBDA l : l # <<>>) IN
  IF nonEmpty = <<>> THEN DefaultSummary ELSE nonEmpty[1]

\* content.split("\n")[0] || "Code reviewed successfully" (145)
parseSummary(content) ==
  LET first == SplitLines(content)[1] IN
  IF first = <<>> THEN DefaultSummary ELSE first

\* parseCodeReviewResponse (122-150); content is kept beside the result
parseCodeReviewResponse(content) ==
  [content |-> content,
   summary |-> parseSummary(content),
   suggestions |-> BulletItems(content, FALSE),
   score |-> parseScore(content),
   issues |-> BulletItems(content, TRUE),
   from |-> "parsed"]

\* the result of reviewCode without a model credential (65-72)
UnavailableReview ==
  [content |-> <<>>, summary |-> UnavailableSummary, suggestions |-> <<>>,
   score |-> DefaultScore, issues |-> <<>>, from |-> "unavailable"]

\* the result of reviewCode when the call raises (104-112)
FailedReview ==
  [content |-> <<>>, summary |-> FailedSummary, suggestions |-> <<>>,
   score |-> DefaultScore, issues |-> <<>>, from |-> "failed"]

\* the ways reviewCode can run (64-113), the model replying one of contents
reviewCode(cfg, contents) ==
  IF ~cfg.azureOpenAIKey
  THEN {[calls |-> <<>>, thrown |-> <<>>, result |-> UnavailableReview]}
  ELSE {[calls |-> <<"model">>, thrown |-> <<"model">>, result |-> FailedReview]}
       \cup {[calls |-> <<"model">>, thrown |-> <<>>, result |-> parseCodeReviewResponse(c)] :
               c \in contents}

L_good == <<"G", "o", "o", "d", " ", "c", "o", "d", "e">>
L_rating8 == <<"R", "a", "t", "i", "n", "g", ":", " ", "8">>
L_score97 == <<"s", "c", "o", "r", "e", ":", " ", "9", "7">>
L_scoreHigh == <<"S", "c", "o", "r", "e", ":", " ", "h", "i", "g", "h">>
L_rating == <<"r", "a", "t", "i", "n", "g", ":">>
L_7of10 == <<"7", " ", "o", "f", " ", "1", "0">>
L_fixBug == <<"-", " ", "f", "i", "x", " ", "b", "u", "g">>
L_addTypes == <<"*", " ", "a", "d", "d", " ", "t", "y", "p", "e", "s">>
L_noSpace == <<"-", "n", "o", " ", "s", "p", "a", "c", "e">>

\* lines a model reply is made of
ReviewLines == {<<>>, L_good, L_rating8, L_score97, L_scoreHigh, L_rating, L_7of10,
                L_fixBug, L_addTypes, L_noSpace}

\* replies of the model in the handler
SampleReplies == {JoinLines(<<L_good, L_fixBug, L_rating8>>),
                  JoinLines(<<<<>>, L_good, L_addTypes>>),
                  L_score97}

\* generateCode (codeAnalysis.ts 153-188): without a model credential the
\* fixed result and no call; else one call, whose failure is caught
modelService(cfg) ==
  IF ~cfg.azureOpenAIKey
  THEN {[calls |-> <<>>, thrown |-> <<>>, result |-> "unavailable"]}
  ELSE {[calls |-> <<"model">>, thrown |-> <<>>, result |-> "completed"],
        [calls |-> <<"model">>, thrown |-> <<"model">>, result |-> "failed"]}

\* case 'code_review' (241-252)
CodeReview ==
  /\ pc = "capability" /\ intent = "code_review"
  /\ LET code == Trim(StripPrefix(msg.text, <<JoinWords(<<W_review, W_code>>),
                                               JoinWords(<<W_code, W_review>>)>>)) IN
     IF code = <<>>
     THEN /\ Send([kind |-> "need_code", body |-> <<>>])
          /\ Stage(<<"format">>)
          /\ UNCHANGED <<calls, thrown, review>>
     ELSE \E run \in reviewCode(config, SampleReplies) :
            /\ Call(run.calls)
            /\ Throw(run.thrown)
            /\ review' = run.result
            /\ Send([kind |-> "review", body |-> <<run.result.from>>])
            /\ Stage(<<"capability", "format">>)
  /\ pc' = "done"
  /\ BranchFrame
  /\ NoSearch
  /\ UNCHANGED <<tmpFiles, pending, turns, repo>>

\* case 'code_generate' (254-264)
CodeGenerate ==
  /\ pc = "capability" /\ intent = "code_generate"
  /\ LET requirements == Trim(StripPrefix(msg.text, <<JoinWords(<<W_generate, W_code>>),
                                                       JoinWords(<<W_create, W_code>>)>>)) IN
     IF requirements = <<>>
     THEN /\ Send([kind |-> "need_requirements", body |-> <<>>])
          /\ Stage(<<"format">>)
          /\ UNCHANGED <<calls, thrown>>
     ELSE \E run \in modelService(config) :
            /\ Call(run.calls)
            /\ Throw(run.thrown)
            /\ Send([kind |-> "generated", body |-> <<run.result>>])
            /\ Stage(<<"capability", "format">>)
  /\ pc' = "done"
  /\ BranchFrame
  /\ NoSearch
  /\ Quiet

\* the result of getGitStatus when the client fails (projectManager.ts 45)
UnknownStatus == [current |-> "unknown", files |-> <<>>, ahead |-> 0, behind |-> 0]

\* what git.status() can report
GitStatuses == {[current |-> "main", files |-> <<>>, ahead |-> 0, behind |-> 0],
                [current |-> "main", files |-> <<"M">>, ahead |-> 1, behind |-> 2]}

\* getGitStatus that lets the exception of the client through
getGitStatus_rethrow ==
  {[calls |-> <<>>, thrown |-> <<"simpleGit">>, threw |-> TRUE, result |-> UnknownStatus],
   [calls |-> <<"git_status">>, thrown |-> <<"git_status">>, threw |-> TRUE,
    result |-> UnknownStatus]}
  \cup {[calls |-> <<"git_status">>, thrown |-> <<>>, threw |-> FALSE, result |-> st] :
          st \in GitStatuses}

\* the ways getGitStatus can run (projectManager.ts 28-47): simpleGit(root)
\* or git.status() raising is caught and gives the fixed status
getGitStatus ==
  {[calls |-> <<>>, thrown |-> <<"simpleGit">>, threw |-> FALSE, result |-> UnknownStatus],
   [calls |-> <<"git_status">>, thrown |-> <<"git_status">>, threw |-> FALSE,
    result |-> UnknownStatus]}
  \cup {[calls |-> <<"git_status">>, thrown |-> <<>>, threw |-> FALSE, result |-> st] :
          st \in GitStatuses}

\* case 'git_status' (266-271)
GitStatus ==
  /\ pc = "capability" /\ intent = "git_status"
  /\ \E run \in getGitStatus :
       /\ Call(run.calls)
       /\ Throw(run.thrown)
       /\ IF run.threw
          THEN /\ pc' = "failed"
               /\ Stage(<<"capability">>)
               /\ UNCHANGED replies
          ELSE /\ pc' = "done"
               /\ Stage(<<"capability", "format">>)
               /\ Send([kind |-> "git_status_card", body |-> <<run.result>>])
  /\ BranchFrame
  /\ NoSearch
  /\ Quiet

\* the ways commitChanges(message) can run (projectManager.ts 49-65):
\* simpleGit(root), git.add('.') or git.commit(message) raising is caught
commitChanges ==
  {[calls |-> <<>>, thrown |-> <<"simpleGit">>, success |-> FALSE],
   [calls |-> <<"git_add">>, thrown |-> <<"git_add">>, success |-> FALSE],
   [calls |-> <<"git_add", "git_commit">>, thrown |-> <<"git_commit">>, success |-> FALSE],
   [calls |-> <<"git_add", "git_commit">>, thrown |-> <<>>, success |-> TRUE]}

\* case 'git_commit' (273-278)
GitCommit ==
  /\ pc = "capability" /\ intent = "git_commit"
  /\ LET stripped == Trim(StripPrefix(msg.text, <<W_commit>>))
         message == IF stripped = <<>> THEN DefaultCommitMessage ELSE stripped IN
     \E run \in commitChanges :
       /\ Call(run.calls)
       /\ Throw(run.thrown)
       /\ Send(IF run.success THEN [kind |-> "committed", body |-> message]
                              ELSE [kind |-> "commit_failed", body |-> <<>>])
  /\ Stage(<<"capability", "format">>)
  /\ pc' = "done"
  /\ BranchFrame
  /\ NoSearch
  /\ Quiet

\* the ways createBranch(name) can run (projectManager.ts 67-76)
createBranch ==
  {[calls |-> <<>>, thrown |-> <<"simpleGit">>, success |-> FALSE],
   [calls |-> <<"git_checkout">>, thrown |-> <<"git_checkout">>, success |-> FALSE],
   [calls |-> <<"git_checkout">>, thrown |-> <<>>, success |-> TRUE]}

\* a git_branch case without the test of the empty name
GitBranch_noCheck ==
  /\ pc = "capability" /\ intent = "git_branch"
  /\ LET branchName == Trim(StripPrefix(msg.text, <<W_branch>>)) IN
     \E run \in createBranch :
       /\ Call(run.calls)
       /\ Throw(run.thrown)
       /\ Send(IF run.success THEN [kind |-> "branch_created", body |-> branchName]
                              ELSE [kind |-> "branch_failed", body |-> <<>>])
       /\ Stage(<<"capability", "format">>)
  /\ pc' = "done"
  /\ BranchFrame
  /\ NoSearch
  /\ Quiet

\* case 'git_branch' (280-290)
GitBranch ==
  /\ pc = "capability" /\ intent = "git_branch"
  /\ LET branchName == Trim(StripPrefix(msg.text, <<W_branch>>)) IN
     IF branchName = <<>>
     THEN /\ Send([kind |-> "need_branch", body |-> <<>>])
          /\ Stage(<<"format">>)
          /\ UNCHANGED <<calls, thrown>>
     ELSE \E run \in createBranch :
            /\ Call(run.calls)
            /\ Throw(run.thrown)
            /\ Send(IF run.success THEN [kind |-> "branch_created", body |-> branchName]
                                   ELSE [kind |-> "branch_failed", body |-> <<>>])
            /\ Stage(<<"capability", "format">>)
  /\ pc' = "done"
  /\ BranchFrame
  /\ NoSearch
  /\ Quiet

\* the project analyzeProject looks at: the source files found by the walk,
\* the lines of each, and the dependencies named in package.json
SourceFiles == 2
FileLines == 10
Dependencies == {"axios"}
DevDependencies == {"typescript"}
Contributors == {"alice", "bob"}
LatestCommit == "abc12345 - init"

\* the object returned by the outer catch of analyzeProject (153-164)
ZeroMetrics ==
  [totalFiles |-> 0, totalLines |-> 0, languages |-> {}, lastCommit |-> "",
   contributors |-> {}, dependencies |-> {}, devDependencies |-> {}]

\* the runs of analyzeProject that end in its outer catch: reading or parsing
\* package.json raises (104), or simpleGit(root) does (108)
OuterCatchRuns ==
  {[calls |-> <<"package_json">>, thrown |-> <<"package_json">>, metrics |-> ZeroMetrics],
   [calls |-> <<"package_json">>, thrown |-> <<"simpleGit">>, metrics |-> ZeroMetrics]}

\* a run of analyzeProject that reaches its return (143-151). pkg: whether
\* package.json exists; log: the number of git.log calls that succeed;
\* walk: whether the root directory can be listed; unreadable: the number of
\* found files that cannot be read
ReturnRun(pkg, log, walk, unreadable) ==
  LET found == IF walk THEN SourceFiles ELSE 0
      read == found - unreadable
      Times(n, c) == [i \in 1..n |-> c]
  IN [calls |-> (IF pkg THEN <<"package_json">> ELSE <<>>)
                \o Times(IF log = 0 THEN 1 ELSE 2, "git_log")
                \o <<"fs_walk">> \o Times(found, "fs_file"),
      thrown |-> (IF log < 2 THEN <<"git_log">> ELSE <<>>)
                 \o (IF walk THEN <<>> ELSE <<"fs_walk">>)
                 \o Times(unreadable, "fs_file"),
      metrics |-> [totalFiles |-> found,
                   totalLines |-> read * FileLines,
                   languages |-> IF read > 0 THEN {<<"ts", read>>} ELSE {},
                   lastCommit |-> IF log >= 1 THEN LatestCommit ELSE "",
                   contributors |-> IF log = 2 THEN Contributors ELSE {},
                   dependencies |-> IF pkg THEN Dependencies ELSE {},
                   devDependencies |-> IF pkg THEN DevDependencies ELSE {}]]

\* the inputs of ReturnRun: no file is read when the walk found none
ReturnCases ==
  {c \in [pkg : BOOLEAN, log : 0..2, walk : BOOLEAN, unreadable : 0..SourceFiles] :
     ~c.walk => c.unreadable = 0}

\* analyzeProject turning every failure into the all-zero object
analyzeProject_zeroOnAnyFailure ==
  OuterCatchRuns
  \cup {[ReturnRun(c.pkg, c.log, c.walk, c.unreadable) EXCEPT
           !.metrics = IF ReturnRun(c.pkg, c.log, c.walk, c.unreadable).thrown # <<>>
                       THEN ZeroMetrics ELSE @] : c \in ReturnCases}

\* the ways analyzeProject can run (projectManager.ts 96-165): a failure
\* reading package.json or making the client reaches the outer catch; a
\* failure of the log is caught by the inner one (121-123); the walk
\* (findSourceFiles 181-190) and the file reads (138-140) catch their own
analyzeProject ==
  OuterCatchRuns
  \cup {ReturnRun(c.pkg, c.log, c.walk, c.unreadable) : c \in ReturnCases}

\* case 'project_info' (292-297)
ProjectInfo ==
  /\ pc = "capability" /\ intent = "project_info"
  /\ \E run \in analyzeProject :
       /\ Call(run.calls)
       /\ Throw(run.thrown)
       /\ Send([kind |-> "dashboard_card", body |-> <<run.metrics>>])
  /\ Stage(<<"capability", "format">>)
  /\ pc' = "done"
  /\ BranchFrame
  /\ NoSearch
  /\ Quiet

\* case 'deployment' (299-313): a static text
Deployment ==
  /\ pc = "capability" /\ intent = "deployment"
  /\ Send([kind |-> "deployment", body |-> <<>>])
  /\ Stage(<<"format">>)
  /\ pc' = "done"
  /\ UNCHANGED calls
  /\ BranchFrame
  /\ NoSearch
  /\ Rest

\* the ways getEnvironments can run (projectManager.ts 204-243): the number
\* of environments found; a raising directory read is caught and gives []
getEnvironments ==
  {[calls |-> <<"fs_read">>, thrown |-> <<"fs_read">>, envs |-> 0],
   [calls |-> <<"fs_read">>, thrown |-> <<>>, envs |-> 0],
   [calls |-> <<"fs_read">>, thrown |-> <<>>, envs |-> 2]}

\* case 'environment' (315-323)
Environment ==
  /\ pc = "capability" /\ intent = "environment"
  /\ \E run \in getEnvironments :
       /\ Call(run.calls)
       /\ Throw(run.thrown)
       /\ Send([kind |-> "environments", body |-> <<run.envs>>])
  /\ Stage(<<"capability", "format">>)
  /\ pc' = "done"
  /\ BranchFrame
  /\ NoSearch
  /\ Quiet

\* case 'search' (325-338): webSearch, then for a non-empty result list the
\* model summarizes; model.completeChat is awaited outside any try
Search ==
  /\ pc = "capability" /\ intent = "search"
  /\ \E api \in SearchOutcomes, modelOk \in BOOLEAN :
       LET s == webSearch(config, api, SearchCount)
           searched == IF s.called THEN <<"search_api">> ELSE <<>>
           searchThrown == IF s.called /\ ~api.ok THEN <<"search_api">> ELSE <<>>
       IN /\ results' = s.results
          /\ IF s.results = 0
             THEN /\ Call(searched)
                  /\ Throw(searchThrown)
                  /\ Send([kind |-> "search_none", body |-> <<>>])
                  /\ Stage(<<"capability", "format">>)
                  /\ pc' = "done"
             ELSE IF modelOk
             THEN /\ Call(searched \o <<"model">>)
                  /\ Throw(searchThrown)
                  /\ Send([kind |-> "cited", body |-> <<s.results>>])
                  /\ Stage(<<"capability", "format">>)
                  /\ pc' = "done"
             ELSE /\ Call(searched \o <<"model">>)
                  /\ Throw(searchThrown \o <<"model">>)
                  /\ Stage(<<"capability">>)
                  /\ pc' = "failed"
                  /\ UNCHANGED replies
  /\ BranchFrame
  /\ Quiet

\* case 'card' (339-345)
Card ==
  /\ pc = "capability" /\ intent = "card"
  /\ \E run \in analyzeProject :
       /\ Call(run.calls)
       /\ Throw(run.thrown)
       /\ Send([kind |-> "dashboard_card", body |-> <<run.metrics>>])
  /\ Stage(<<"capability", "format">>)
  /\ pc' = "done"
  /\ BranchFrame
  /\ NoSearch
  /\ Quiet

\* case 'summarize' (346-352): model.completeChat is awaited outside any try
Summarize ==
  /\ pc = "capability" /\ intent = "summarize"
  /\ Call(<<"model">>)
  /\ \/ /\ Send([kind |-> "summary", body |-> <<>>])
        /\ Stage(<<"capability", "format">>)
        /\ pc' = "done"
        /\ UNCHANGED thrown
     \/ /\ Stage(<<"capability">>)
        /\ Throw(<<"model">>)
        /\ pc' = "failed"
        /\ UNCHANGED replies
  /\ BranchFrame
  /\ NoSearch
  /\ Quiet

\* default (353-355): no reply, the planner's chat prompt answers
Chat ==
  /\ pc = "capability" /\ intent = "chat"
  /\ pc' = "done"
  /\ UNCHANGED <<replies, calls, stages>>
  /\ BranchFrame
  /\ NoSearch
  /\ Rest

Next ==
  \/ Receive
  \/ HandlerReturns
  \/ ensureNotFlagged
  \/ BeginAttachments
  \/ ProcessAttachment
  \/ AttachmentsReply
  \/ Classify
  \/ Help
  \/ CodeAnalysisFind
  \/ AnalyzeFile
  \/ CodeAnalysisReply
  \/ CodeReview
  \/ CodeGenerate
  \/ GitStatus
  \/ GitCommit
  \/ GitBranch
  \/ ProjectInfo
  \/ Deployment
  \/ Environment
  \/ Search
  \/ Card
  \/ Summarize
  \/ Chat

Spec == Init /\ [][Next]_vars

TypeOK ==
  /\ config \in Configs
  /\ pc \in {"idle", "moderate", "attcheck", "attachments", "capability", "analyze",
             "done", "failed", "input", "classified"}
  /\ intent \in Range(IntentLabels) \cup {"chat", "none"}
  /\ attIdx \in 0..(MaxAtts + 1)
  /\ files \in 0..MaxMatches
  /\ results \in 0..SearchCount
  /\ Len(replies) <= 1

(***************************************************************************)
(* The classifier on its own: detectIntent applied to every text of a      *)
(* bounded input set                                                       *)
(***************************************************************************)
Vocabulary == {W_search, W_Search, W_card, W_cards, W_summarize, W_help, W_review,
               W_code, W_analysis, W_generate, W_create, W_git, W_status, W_commit,
               W_branch, W_dashboard, W_deployment, W_environment, W_project, W_hello}

\* the texts of at most MaxWords words of the vocabulary
WordTexts == {JoinWords(ws) : ws \in UNION {[1..n -> Vocabulary] : n \in 1..MaxWords}}

InitIntent ==
  /\ config = DefaultConfig
  /\ pc = "input"
  /\ msg \in {[text |-> t, attachments |-> <<>>] : t \in WordTexts \cup Texts}
  /\ mod = NoMod
  /\ intent = "none"
  /\ replies = <<>>
  /\ calls = <<>>
  /\ stages = <<>>
  /\ attIdx = 0
  /\ outputs = <<>>
  /\ files = 0
  /\ analyzed = <<>>
  /\ results = 0
  /\ thrown = <<>>
  /\ tmpFiles = {}
  /\ review = NoReview
  /\ pending = {}
  /\ turns = NoTurns
  /\ repo = NoRepo

\* detectIntent(text) is evaluated
ApplyDetectIntent ==
  /\ pc = "input"
  /\ intent' = detectIntent(msg.text)
  /\ pc' = "classified"
  /\ UNCHANGED <<config, msg, mod, replies, calls, stages, attIdx, outputs, files,
                  analyzed, results>>
  /\ Rest

NextIntent == ApplyDetectIntent

SpecIntent == InitIntent /\ [][NextIntent]_vars
(***************************************************************************)
(* The attachment path on its own, over attachments of many lengths        *)
(***************************************************************************)
\* content lengths around the cap: with a three-letter suffix the text is
\* FilePrefixLen + 5 + NewlineLen = 12 characters longer than the content
ContentLens == {0, 10, OutputCap - 13, OutputCap - 12, OutputCap - 11, OutputCap + 1000}

SizedAttKinds == {[hasUrl |-> FALSE, ext |-> "txt", contentLen |-> 10]}
                 \cup {[hasUrl |-> TRUE, ext |-> e, contentLen |-> n] :
                         e \in {"txt", "docx"}, n \in ContentLens}

SizedMessages == {[text |-> NoText, attachments |-> a] :
                    a \in UNION {[1..n -> SizedAttKinds] : n \in 0..MaxAtts}}

InitAttach == Init /\ config = DefaultConfig

\* the handler is invoked with an activity of SizedMessages
ReceiveSized ==
  /\ pc = "idle"
  /\ msg' \in SizedMessages
  /\ pc' = "moderate"
  /\ UNCHANGED <<config, mod, intent, replies, calls, stages, attIdx, outputs, files,
                  analyzed, results>>
  /\ Rest

NextAttach ==
  \/ ReceiveSized
  \/ HandlerReturns
  \/ ensureNotFlagged
  \/ BeginAttachments
  \/ ProcessAttachment
  \/ AttachmentsReply
  \/ Classify
  \/ Chat

SpecAttach == InitAttach /\ [][NextAttach]_vars

(***************************************************************************)
(* reviewCode on its own, over model replies of at most MaxLines lines     *)
(***************************************************************************)
ReviewContents == {JoinLines(ls) : ls \in UNION {[1..n -> ReviewLines] : n \in 1..MaxLines}}

InitReview ==
  /\ config \in {[DefaultConfig EXCEPT !.azureOpenAIKey = k] : k \in BOOLEAN}
  /\ pc = "input"
  /\ msg = [text |-> <<>>, attachments |-> <<>>]
  /\ mod = NoMod
  /\ intent = "none"
  /\ replies = <<>>
  /\ calls = <<>>
  /\ stages = <<>>
  /\ attIdx = 0
  /\ outputs = <<>>
  /\ files = 0
  /\ analyzed = <<>>
  /\ results = 0
  /\ thrown = <<>>
  /\ tmpFiles = {}
  /\ review = NoReview
  /\ pending = {}
  /\ turns = NoTurns
  /\ repo = NoRepo

\* reviewCode(code) is evaluated
ApplyReviewCode ==
  /\ pc = "input"
  /\ \E run \in reviewCode(config, ReviewContents) :
       /\ Call(run.calls)
       /\ Throw(run.thrown)
       /\ review' = run.result
  /\ pc' = "classified"
  /\ UNCHANGED <<config, msg, mod, intent, replies, stages, attIdx, outputs, files,
                  analyzed, results, tmpFiles, pending, turns, repo>>

NextReview == ApplyReviewCode

SpecReview == InitReview /\ [][NextReview]_vars
(***************************************************************************)
(* The operations of one handling, each with its start and its completion  *)
(***************************************************************************)
\* an operation of the handler; mode says how it is started: "await" (the
\* handler goes on when it has completed), "sync" (a blocking call) or
\* "callback" (started with a callback, the handler goes on at once)
Op(op, mode, at) == [op |-> op, mode |-> mode, at |-> at]

\* the operations of extractTextFromAttachment(att) for attachment number i
\* (app.ts 94-114), in program order; fs.unlink(tmp, () => {}) is not awaited
AttachmentOps(att, i) ==
  IF ~att.hasUrl THEN <<>>
  ELSE <<Op("download", "await", i), Op("fs_write", "sync", i)>>
       \o (CASE att.ext \in {"pdf", "csv"} ->
                  <<Op("fs_read", "sync", i), Op("extract", "await", i)>>
             [] att.ext \in {"txt", "md"} -> <<Op("fs_read", "sync", i)>>
             [] OTHER -> <<>>)
       \o <<Op("fs_unlink", "callback", i)>>

\* await context.sendActivity(...)
SendOp == Op("sendActivity", "await", 0)

RECURSIVE AttachmentsProgram(_, _)
\* the loop of processAttachments (81-92) from attachment i on
AttachmentsProgram(atts, i) ==
  IF i > Len(atts) THEN <<>>
  ELSE AttachmentOps(atts[i], i) \o AttachmentsProgram(atts, i + 1)

RECURSIVE AnalysisLoop(_, _)
\* the loop over files.slice(0, 3) (231-235) from file k on: analyzeCode
\* awaits the lint run and then reads the file
AnalysisLoop(n, k) ==
  IF k > Min(n, AnalyzeLimit) THEN <<>>
  ELSE <<Op("lint", "await", k), Op("fs_read", "sync", k)>> \o AnalysisLoop(n, k + 1)

\* the operations of the handling of msg, in program order, when none raises
Program ==
  IF msg.attachments # <<>>
  THEN AttachmentsProgram(msg.attachments, 1) \o <<SendOp>>
  ELSE <<Op("glob", "await", 0)>> \o AnalysisLoop(files, 1) \o <<SendOp>>

InitOps ==
  /\ config = DefaultConfig
  /\ pc = "running"
  /\ \/ /\ msg \in {[text |-> <<>>, attachments |-> a] : a \in AttLists \ {<<>>}}
        /\ intent = "none"
        /\ files = 0
     \/ /\ msg = [text |-> JoinWords(<<W_analyze, W_star_ts>>), attachments |-> <<>>]
        /\ intent = "code_analysis"
        /\ files \in 0..MaxMatches
  /\ mod = NoMod
  /\ replies = <<>>
  /\ calls = <<>>
  /\ stages = <<>>
  /\ attIdx = 0
  /\ outputs = <<>>
  /\ analyzed = <<>>
  /\ results = 0
  /\ thrown = <<>>
  /\ tmpFiles = {}
  /\ review = NoReview
  /\ pending = {}
  /\ turns = NoTurns
  /\ repo = NoRepo

\* the handler is suspended in an await
Waiting == \E p \in pending : p.mode = "await"

OpsFrame == UNCHANGED <<config, msg, mod, intent, stages, attIdx, outputs, files, analyzed,
                        results, thrown, tmpFiles, review, turns, repo>>

\* a handler that goes on without waiting for the operation it awaits
StartOp_noWait ==
  /\ pc = "running"
  /\ Len(calls) < Len(Program)
  /\ LET o == Program[Len(calls) + 1] IN
     /\ calls' = Append(calls, o.op)
     /\ pending' = IF o.mode = "sync" THEN pending ELSE pending \cup {o}
     /\ replies' = IF o = SendOp THEN Append(replies, [kind |-> "sent", body |-> <<>>])
                                 ELSE replies
  /\ UNCHANGED pc
  /\ OpsFrame

\* the handler starts its next operation; a blocking one is also over
StartOp ==
  /\ pc = "running"
  /\ ~Waiting
  /\ Len(calls) < Len(Program)
  /\ LET o == Program[Len(calls) + 1] IN
     /\ calls' = Append(calls, o.op)
     /\ pending' = IF o.mode = "sync" THEN pending ELSE pending \cup {o}
     /\ replies' = IF o = SendOp THEN Append(replies, [kind |-> "sent", body |-> <<>>])
                                 ELSE replies
  /\ UNCHANGED pc
  /\ OpsFrame

\* an outstanding operation completes: its promise settles or its callback runs
CompleteOp ==
  /\ \E p \in pending : pending' = pending \ {p}
  /\ UNCHANGED <<pc, calls, replies>>
  /\ OpsFrame

\* the handler returns after its last operation
ReturnOp ==
  /\ pc = "running"
  /\ ~Waiting
  /\ Len(calls) = Len(Program)
  /\ pc' = "done"
  /\ UNCHANGED <<calls, replies, pending>>
  /\ OpsFrame

NextOps == StartOp \/ CompleteOp \/ ReturnOp

SpecOps == InitOps /\ [][NextOps]_vars
(***************************************************************************)
(* Two "commit" messages handled at the same time on one working tree      *)
(***************************************************************************)
\* the files of the working tree that can change
TreeFiles == {"a.ts", "b.ts"}

\* the handlers of the two messages
Handlers == {1, 2}

\* a handler of a "commit" message before its call of commitChanges
NewTurn == [pc |-> "start", staged |-> {}, committed |-> {}, success |-> FALSE]

InitCommit ==
  /\ config = DefaultConfig
  /\ pc = "capability"
  /\ msg = [text |-> W_commit, attachments |-> <<>>]
  /\ mod = NoMod
  /\ intent = "git_commit"
  /\ replies = <<>>
  /\ calls = <<>>
  /\ stages = <<>>
  /\ attIdx = 0
  /\ outputs = <<>>
  /\ files = 0
  /\ analyzed = <<>>
  /\ results = 0
  /\ thrown = <<>>
  /\ tmpFiles = {}
  /\ review = NoReview
  /\ pending = {}
  /\ turns = [h \in Handlers |-> NewTurn]
  /\ repo \in {[dirty |-> d, index |-> {}, commits |-> <<>>] : d \in SUBSET TreeFiles \ {{}}}

CommitFrame == UNCHANGED <<config, pc, msg, mod, intent, replies, calls, stages, attIdx,
                           outputs, files, analyzed, results, thrown, tmpFiles, review,
                           pending>>

\* a file of the working tree is edited while the bot runs
EditFile ==
  /\ \E f \in TreeFiles \ repo.dirty : repo' = [repo EXCEPT !.dirty = @ \cup {f}]
  /\ UNCHANGED turns
  /\ CommitFrame

\* await git.add('.') of handler h (projectManager.ts 56): every change of
\* the working tree goes to the index, which the two handlers share
TurnAdd(h) ==
  /\ turns[h].pc = "start"
  /\ repo' = [repo EXCEPT !.index = repo.index \cup repo.dirty, !.dirty = {}]
  /\ turns' = [turns EXCEPT ![h].pc = "added", ![h].staged = repo.index \cup repo.dirty]
  /\ CommitFrame

\* await git.commit(message) of handler h (59-60): the commit takes the whole
\* index; with an empty index git makes no commit, and the call may resolve
\* or reject
TurnCommit(h) ==
  /\ turns[h].pc = "added"
  /\ IF repo.index # {}
     THEN /\ repo' = [repo EXCEPT !.index = {}, !.commits = Append(@, repo.index)]
          /\ turns' = [turns EXCEPT ![h].pc = "done", ![h].committed = repo.index,
                                    ![h].success = TRUE]
     ELSE /\ UNCHANGED repo
          /\ \E ok \in BOOLEAN :
               turns' = [turns EXCEPT ![h].pc = "done", ![h].success = ok]
  /\ CommitFrame

NextCommit == EditFile \/ \E h \in Handlers : TurnAdd(h) \/ TurnCommit(h)

SpecCommit == InitCommit /\ [][NextCommit]_vars
(***************************************************************************)
(* Properties                                                              *)
(***************************************************************************)
Made(c) == \E i \in DOMAIN calls : calls[i] = c

NoAttachments == Len(msg.attachments) = 0

HasBannedKeyword(text) == \E w \in banned : Contains(toLowerCase(text), w)

HasUpperCase(text) == \E i \in DOMAIN text : text[i] \in Range(UpperLetters)

\* C1: a message whose moderation result is flagged gets exactly one reply,
\* the warning, and its handling is over: the classifier has not run, no
\* attachment was downloaded or extracted, and no call other than the
\* moderation call was made.
C1_FlaggedStops ==
  mod.flagged =>
    /\ pc = "done"
    /\ Len(replies) = 1
    /\ replies[1].kind = "warning"
    /\ replies[1].body = mod.reasons
    /\ intent = "none"
    /\ attIdx = 0 /\ outputs = <<>>
    /\ \A i \in DOMAIN calls : calls[i] = "moderation_api"
    /\ stages = <<"moderation">>

C1_Witness ==
  /\ mod.flagged
  /\ pc = "done"
  /\ Len(msg.attachments) > 0
  /\ Len(replies) = 1

StageOrder == <<"moderation", "attachment_check", "attachments", "classification",
                "capability", "format">>

StageRank(st) == CHOOSE k \in DOMAIN StageOrder : StageOrder[k] = st

\* the stages passed so far are in the fixed order
StagesInOrder ==
  \A i, j \in DOMAIN stages : i < j => StageRank(stages[i]) < StageRank(stages[j])

\* C2: the stages of a handling come in the fixed order, a handling that has
\* ended has sent exactly one reply, or none when the intent is chat, and no
\* handling sends two replies.
C2_OneReplyAtEnd ==
  /\ StagesInOrder
  /\ Len(replies) <= 1
  /\ Ended => Len(replies) = (IF intent = "chat" THEN 0 ELSE 1)

\* C3: an unflagged message with attachments gets one reply, made of one
\* output per attachment, and neither the classifier nor a capability runs,
\* whatever the text.
C3_AttachmentsOnly ==
  (mod.ran /\ ~mod.flagged /\ ~NoAttachments) =>
    /\ intent = "none"
    /\ pc \in {"attcheck", "attachments", "done"}
    /\ \A i \in DOMAIN calls :
         calls[i] \in {"moderation_api", "download", "fs_write", "fs_read", "fs_unlink"}
    /\ \A i \in DOMAIN stages : stages[i] \notin {"classification", "capability"}
    /\ pc # "done" => replies = <<>>
    /\ pc = "done" =>
         /\ Len(replies) = 1
         /\ replies[1].kind = "attachments"
         /\ replies[1].body = outputs
         /\ Len(outputs) = Len(msg.attachments)

C3_Witness ==
  /\ pc = "done"
  /\ ~mod.flagged
  /\ Len(msg.attachments) = 2
  /\ StartsWith(toLowerCase(msg.text), W_commit)
  /\ Len(replies) = 1 /\ replies[1].kind = "attachments"
  /\ Len(replies[1].body) = 2

\* the rules whose regular expression matches the lower-cased text
MatchingRules(text) == {i \in DOMAIN IntentLabels : RuleMatches(i, toLowerCase(text))}

\* C4: the label is that of the lowest-numbered rule that matches, chat when
\* no rule matches; "search for card games" is search.
C4_FirstMatchWins ==
  pc = "classified" =>
    /\ LET M == MatchingRules(msg.text) IN
       IF M = {} THEN intent = "chat"
       ELSE \E i \in M : (\A j \in M : i <= j) /\ intent = IntentLabels[i]
    /\ msg.text = JoinWords(<<W_search, W_for, W_card, W_games>>) => intent = "search"

C4_Witness ==
  /\ pc = "classified"
  /\ {1, 2} \subseteq MatchingRules(msg.text)
  /\ intent = "search"

\* the words A and B of the rules worded "text starts with A or B"
StartWords(i) ==
  CASE i = 7  -> {JoinWords(<<W_generate, W_code>>), JoinWords(<<W_create, W_code>>)}
    [] i = 8  -> {JoinWords(<<W_git, W_status>>), W_status}
    [] i = 11 -> {W_project, W_dashboard}
    [] i = 12 -> {W_deploy, W_deployment}
    [] i = 13 -> {W_env, W_environment}

\* C5: a text is given the label of rule 7, 8, 11, 12 or 13 only when its
\* lower-cased form begins with one of the rule's two words.
C5_StartsWithOnly ==
  pc = "classified" =>
    \A i \in {7, 8, 11, 12, 13} :
      intent = IntentLabels[i] =>
        \E w \in StartWords(i) : StartsWith(toLowerCase(msg.text), w)

\* C6: with moderation disabled the result is unflagged with no reasons and
\* the hosted moderation service is not called.
C6_DisabledNeverFlags ==
  (~config.enableModeration /\ mod.ran) =>
    /\ ~mod.flagged
    /\ mod.reasons = <<>>
    /\ ~Made("moderation_api")

C6_Witness ==
  /\ ~config.enableModeration
  /\ config.openAIModerationApiKey
  /\ mod.ran
  /\ HasBannedKeyword(msg.text)

\* C7 as stated: every text with a banned keyword is flagged with reasons
\* ["keyword"] and without a hosted call.
C7_KeywordAlwaysFlags ==
  (mod.ran /\ HasBannedKeyword(msg.text)) =>
    /\ mod.flagged
    /\ mod.reasons = <<"keyword">>
    /\ ~Made("moderation_api")

\* C7: with moderation enabled, every text with a banned keyword, in any
\* letter case, is flagged with reasons ["keyword"], with or without a
\* moderation credential, and the hosted endpoint is not called.
C7_KeywordFlagsWhenEnabled ==
  (config.enableModeration /\ mod.ran /\ HasBannedKeyword(msg.text)) =>
    /\ mod.flagged
    /\ mod.reasons = <<"keyword">>
    /\ ~Made("moderation_api")

C7_Witness ==
  /\ config.enableModeration
  /\ config.openAIModerationApiKey
  /\ mod.ran
  /\ HasBannedKeyword(msg.text)
  /\ HasUpperCase(msg.text)
  /\ mod.flagged

\* C8: when the hosted moderation call fails the result is unflagged with no
\* reasons, nothing is raised, and the handling goes on as for an unflagged
\* message: no warning is sent and the attachment check comes next.
C8_FailOpen ==
  mod.hostedFailed =>
    /\ ~mod.flagged
    /\ mod.reasons = <<>>
    /\ \A i \in DOMAIN replies : replies[i].kind # "warning"
    /\ stages = <<"moderation">> => (pc = "attcheck" /\ replies = <<>>)
    /\ pc = "done" => (Len(stages) > 1 /\ stages[2] = "attachment_check")

C8_Witness ==
  /\ mod.hostedFailed
  /\ config.enableModeration
  /\ ~HasBannedKeyword(msg.text)
  /\ pc = "done"
  /\ Len(replies) = 1

HelpReply == [kind |-> "help", body |-> <<>>]

\* C9 as stated: handling "help" makes no external call, and ends with the
\* command list as the only reply.
C9_HelpNoCalls ==
  (msg.text = W_help /\ NoAttachments /\ pc # "idle") =>
    /\ calls = <<>>
    /\ Ended => replies = <<HelpReply>>

\* C9: handling "help" makes no external call other than the hosted
\* moderation call, which the gate makes exactly when moderation is enabled
\* and a moderation credential is configured; when the gate does not flag the
\* text, the handling ends with the command list as the only reply.
C9_HelpOnlyModerationCall ==
  (msg.text = W_help /\ NoAttachments /\ pc # "idle") =>
    /\ calls = (IF mod.ran /\ config.enableModeration /\ config.openAIModerationApiKey
                THEN <<"moderation_api">> ELSE <<>>)
    /\ pc # "failed"
    /\ (Ended /\ ~mod.flagged) => replies = <<HelpReply>>

C9_Witness ==
  /\ msg.text = W_help
  /\ NoAttachments
  /\ pc = "done"
  /\ config.enableModeration /\ config.openAIModerationApiKey
  /\ replies = <<HelpReply>>
  /\ calls = <<"moderation_api">>

\* C10: in the search branch without a search credential the search API is
\* not called, the result list is empty, the reply is the no-results message
\* and the model is not called; with any configuration the model is called
\* only for a non-empty result list.
C10_SearchWithoutKey ==
  (intent = "search" /\ pc # "capability") =>
    /\ ~config.bingSearchApiKey =>
         /\ ~Made("search_api")
         /\ ~Made("model")
         /\ results = 0
         /\ pc = "done"
         /\ Len(replies) = 1 /\ replies[1].kind = "search_none"
    /\ Made("model") => results > 0
    /\ results = 0 => (Len(replies) = 1 /\ replies[1].kind = "search_none")

C10_Witness ==
  /\ intent = "search"
  /\ pc = "done"
  /\ ~config.bingSearchApiKey
  /\ config.azureOpenAIKey
  /\ msg.text = JoinWords(<<W_search, W_typescript>>)
  /\ Len(replies) = 1 /\ replies[1].kind = "search_none"
\* the text extractTextFromAttachment returns for att when nothing raises
FullLen(att) ==
  FilePrefixLen + NameLen(att) + NewlineLen
    + (IF att.ext \in SupportedExts THEN att.contentLen ELSE UnsupportedLen)

\* C11: every attachment output has at most 4000 characters; the output of
\* an extracted text is its first 4000 characters, prefix line included, when
\* the text is longer, and the whole text otherwise.
C11_OutputCapped ==
  \A i \in DOMAIN outputs :
    /\ TextLen(outputs[i]) <= OutputCap
    /\ outputs[i].kind = "file" =>
         /\ outputs[i].of = FullLen(msg.attachments[i])
         /\ outputs[i].from = 0
         /\ outputs[i].to = (IF outputs[i].of > OutputCap THEN OutputCap
                             ELSE outputs[i].of)
    /\ \A r \in DOMAIN replies :
         replies[r].kind = "attachments" => TextLen(replies[r].body[i]) <= OutputCap

C11_Witness ==
  /\ pc = "done"
  /\ Len(replies) = 1 /\ replies[1].kind = "attachments"
  /\ \E i, j \in DOMAIN outputs :
       /\ outputs[i].kind = "file" /\ outputs[i].of > OutputCap
       /\ TextLen(outputs[i]) = OutputCap
       /\ outputs[j].kind = "file" /\ outputs[j].of = OutputCap
       /\ TextLen(outputs[j]) = OutputCap

\* the exceptions raised inside extractTextFromAttachment, in order
ExtractionThrown ==
  SelectSeq(thrown, LAMBDA c : c \in {"download", "fs_write", "extract"})

\* C12: a batch yields one output per attachment, in attachment order; an
\* attachment whose extraction raises yields the error string, and the
\* attachments after it are still processed.
C12_OneOutputEach ==
  /\ pc = "attachments" => Len(outputs) = attIdx - 1
  /\ (pc = "done" /\ ~mod.flagged /\ ~NoAttachments) =>
       Len(outputs) = Len(msg.attachments)
  /\ \A i \in DOMAIN outputs :
       LET att == msg.attachments[i] IN
       \/ outputs[i] = ErrorOutput
       \/ outputs[i].kind = "empty" /\ ~att.hasUrl
       \/ outputs[i].kind = "file" /\ att.hasUrl /\ outputs[i].name = att.ext
  /\ Cardinality({i \in DOMAIN outputs : outputs[i] = ErrorOutput}) = Len(ExtractionThrown)

C12_Witness ==
  /\ pc = "done"
  /\ Len(msg.attachments) = 2
  /\ Len(thrown) = 1
  /\ outputs[1] = ErrorOutput
  /\ outputs[2].kind = "file"
  /\ Len(replies) = 1 /\ replies[1].body = outputs

\* C13: once a handling has ended, no temporary file of an attachment is
\* left without its deletion issued, whichever way the extraction ended.
C13_TmpFilesDeleted ==
  Ended => tmpFiles = {}
\* the exceptions raised by the source-control client, in order
GitThrown ==
  SelectSeq(thrown, LAMBDA c : c \in {"simpleGit", "git_status", "git_add",
                                      "git_commit", "git_checkout"})

GitIntents == {"git_status", "git_commit", "git_branch"}

\* C14: in the three source-control branches nothing raised by the client
\* reaches the handler; after a client failure the status shown is exactly
\* {current "unknown", no files, ahead 0, behind 0}, and commit and branch
\* reply with their plain-text failure message.
C14_GitFailureDefaults ==
  (intent \in GitIntents /\ pc # "capability") =>
    /\ pc = "done"
    /\ GitThrown # <<>> =>
         /\ Len(replies) = 1
         /\ intent = "git_status" =>
              replies[1] = [kind |-> "git_status_card", body |-> <<UnknownStatus>>]
         /\ intent = "git_commit" => replies[1] = [kind |-> "commit_failed", body |-> <<>>]
         /\ intent = "git_branch" => replies[1] = [kind |-> "branch_failed", body |-> <<>>]

C14_Witness ==
  /\ pc = "done" /\ intent = "git_status"
  /\ thrown = <<"simpleGit">>
  /\ replies = <<[kind |-> "git_status_card", body |-> <<UnknownStatus>>]>>

\* C15: no exception of an external call reaches the handler: no handling
\* ends by an uncaught error, whatever tool or service failed.
C15_FailuresCaught == pc # "failed"

\* C16: a code-analysis request whose pattern matches n files analyzes exactly
\* the first min(n, 3) matches, in order; with n = 0 none is analyzed and the
\* reply is the no-files message.
C16_AnalyzesFirstThree ==
  (Ended /\ intent = "code_analysis") =>
    /\ analyzed = [i \in 1..Min(files, AnalyzeLimit) |-> i]
    /\ files = 0 => replies = <<[kind |-> "no_files", body |-> <<>>]>>

\* the positions of content where "score:" or "rating:" (any case) stands,
\* followed by optional white space and then a digit
ScoredTokens(t) ==
  LET low == toLowerCase(t) IN
  {i \in DOMAIN t :
     \E tok \in {W_score_colon, W_rating_colon} :
       /\ OccursAt(low, tok, i)
       /\ \E j \in (i + Len(tok))..Len(t) :
            /\ t[j] \in Digits
            /\ \A k \in (i + Len(tok))..(j - 1) : IsSpace(t[k])}

\* the integer written at the first digits at or after position i
IntegerAfter(t, i) ==
  LET j == CHOOSE a \in i..Len(t) :
             t[a] \in Digits /\ \A k \in i..(a - 1) : t[k] \notin Digits
      e == CHOOSE b \in j..Len(t) :
             /\ \A k \in j..b : t[k] \in Digits
             /\ b = Len(t) \/ t[b + 1] \notin Digits
  IN parseInt(SubSeq(t, j, e))

C20_SummaryFirstNonEmpty ==
  (pc = "classified" /\ review.from = "parsed") =>
    LET nonEmpty == SelectSeq(SplitLines(review.content), LAMBDA l : l # <<>>) IN
    nonEmpty # <<>> => review.summary = nonEmpty[1]

\* C20, amended: the summary of a parsed reply is its first line when that
\* line is not empty, and the default string when it is, whatever the later
\* lines are.
C20_SummaryFirstLineOrDefault ==
  (pc = "classified" /\ review.from = "parsed") =>
    LET t == review.content
        n == CHOOSE a \in 0..Len(t) :
               /\ \A k \in 1..a : t[k] # NL
               /\ a = Len(t) \/ t[a + 1] = NL
    IN review.summary = IF n = 0 THEN DefaultSummary ELSE SubSeq(t, 1, n)

C20_Witness ==
  /\ pc = "classified"
  /\ review.content = JoinLines(<<<<>>, L_good>>)
  /\ review.summary = DefaultSummary

MetricsIntents == {"project_info", "card"}

\* the number of source files whose read raised
Unreadable == Len(SelectSeq(thrown, LAMBDA c : c = "fs_file"))

\* a failure inside analyzeProject
MetricsFailed ==
  \E i \in DOMAIN thrown :
    thrown[i] \in {"package_json", "simpleGit", "git_log", "fs_walk", "fs_file"}

\* C18 as stated: after a failure at any stage of the project metrics the
\* dashboard is built from the all-zero object, and nothing is raised.
C18_AnyFailureAllZero ==
  (intent \in MetricsIntents /\ pc # "capability") =>
    /\ pc = "done"
    /\ MetricsFailed => replies[1].body = <<ZeroMetrics>>

\* C18, amended: the project metrics never raise; a failure of package.json
\* or of the client's construction gives the all-zero object, a failure of
\* the log leaves contributors empty, a failed walk leaves no files, and an
\* unreadable file is counted in totalFiles but adds no lines.
C18_MetricsDegrade ==
  (intent \in MetricsIntents /\ pc # "capability") =>
    /\ pc = "done"
    /\ Len(replies) = 1
    /\ LET m == replies[1].body[1]
           Raised(c) == \E i \in DOMAIN thrown : thrown[i] = c
       IN /\ (Raised("package_json") \/ Raised("simpleGit")) => m = ZeroMetrics
          /\ Raised("git_log") => m.contributors = {}
          /\ Raised("fs_walk") => m.totalFiles = 0 /\ m.totalLines = 0
          /\ (Raised("fs_file") /\ ~Raised("package_json") /\ ~Raised("simpleGit")) =>
               /\ m.totalFiles = SourceFiles
               /\ m.totalLines = (SourceFiles - Unreadable) * FileLines
          /\ ~MetricsFailed =>
               /\ m.totalFiles = SourceFiles
               /\ m.totalLines = SourceFiles * FileLines
               /\ m.contributors = Contributors

C18_Witness ==
  /\ pc = "done" /\ intent = "project_info"
  /\ thrown = <<"git_log", "fs_file">>
  /\ replies[1].body[1].totalFiles = SourceFiles
  /\ replies[1].body[1].totalLines = FileLines
  /\ replies[1].body[1].dependencies = Dependencies

\* the commands of the quick-action buttons (app.ts 148-153, 171-175), each
\* with the capability its button names and the reply of that capability
CannedCommands ==
  {[text |-> JoinWords(<<W_analyze, W_star_ts>>), intent |-> "code_analysis",
    kinds |-> {"analysis", "no_files"}],
   [text |-> JoinWords(<<W_git, W_status>>), intent |-> "git_status",
    kinds |-> {"git_status_card"}],
   [text |-> W_deploy, intent |-> "deployment", kinds |-> {"deployment"}],
   [text |-> W_env, intent |-> "environment", kinds |-> {"environments"}],
   [text |-> JoinWords(<<W_commit, W_auto_commit, W_via, W_bot>>), intent |-> "git_commit",
    kinds |-> {"committed", "commit_failed"}],
   [text |-> JoinWords(<<W_branch, W_feature_new>>), intent |-> "git_branch",
    kinds |-> {"branch_created", "branch_failed"}],
   [text |-> JoinWords(<<W_git, W_log>>), intent |-> "git_history",
    kinds |-> {"commit_history"}]}

\* C19: a canned command of a quick-action button, re-entered as a message,
\* is classified to the capability its button names and gets that
\* capability's reply; "git log" gets the commit history, not the chat
\* handler.
C19_CannedCommandsServed ==
  \A c \in CannedCommands :
    (msg.text = c.text /\ NoAttachments /\ ~mod.flagged /\ intent # "none") =>
      /\ intent = c.intent
      /\ pc = "done" => (Len(replies) = 1 /\ replies[1].kind \in c.kinds)

UnlinksIssued == Len(SelectSeq(calls, LAMBDA c : c = "fs_unlink"))

C22_ConcurrentAsAlone ==
  \A h \in DOMAIN turns :
    (turns[h].pc = "done" /\ turns[h].staged # {}) =>
      /\ turns[h].success
      /\ turns[h].committed = turns[h].staged

\* the intents whose command takes an argument the handler tests, each with
\* the alternatives of its prefix expression and its prompt
PromptIntents ==
  {[intent |-> "code_review", kind |-> "need_code",
    prefixes |-> <<JoinWords(<<W_review, W_code>>), JoinWords(<<W_code, W_review>>)>>],
   [intent |-> "code_generate", kind |-> "need_requirements",
    prefixes |-> <<JoinWords(<<W_generate, W_code>>), JoinWords(<<W_create, W_code>>)>>],
   [intent |-> "git_branch", kind |-> "need_branch", prefixes |-> <<W_branch>>]}

\* C23: in code_review, code_generate and git_branch a text with nothing
\* after the command prefix gets the fixed prompt as its one reply and the
\* capability is not invoked (no model call, no branch creation); in
\* git_commit it is committed with the message "Auto-commit via bot".
C23_EmptyRemainder ==
  (pc = "done" /\ NoAttachments) =>
    /\ \A p \in PromptIntents :
         (intent = p.intent /\ Trim(StripPrefix(msg.text, p.prefixes)) = <<>>) =>
           /\ replies = <<[kind |-> p.kind, body |-> <<>>]>>
           /\ \A i \in DOMAIN calls : calls[i] \notin {"model", "git_checkout"}
           /\ \A i \in DOMAIN thrown : thrown[i] # "simpleGit"
    /\ (intent = "git_commit" /\ Trim(StripPrefix(msg.text, <<W_commit>>)) = <<>>) =>
         /\ Len(replies) = 1
         /\ \/ replies[1] = [kind |-> "committed", body |-> DefaultCommitMessage]
            \/ replies[1] = [kind |-> "commit_failed", body |-> <<>>] /\ GitThrown # <<>>

C23_Witness ==
  /\ pc = "done"
  /\ msg.text = W_branch \o SP
  /\ intent = "git_branch"
  /\ replies = <<[kind |-> "need_branch", body |-> <<>>]>>

====
